---- MODULE Spec2Model ----
(***************************************************************************)
(* Model of vsync.py: the VSync-to-serial relay.  main() merges the        *)
(* command line with a JSON config file, opens the serial port, loads the  *)
(* native wait function, discards `warmup` wait returns and then forwards  *)
(* one marker byte per debounced ACCEPT status.                            *)
(*                                                                         *)
(* Time is counted in ticks of 0.25 ms, so the built-in pulse threshold of *)
(* 0.0005 s is 2 ticks.  Optional values (argparse's None, an unbound      *)
(* local) are the empty sequence; a present value v is <<v>>.              *)
(***************************************************************************)
EXTENDS Integers, Sequences, FiniteSets

VARIABLES
    cli,                 \* args: the parsed command line (line 104)
    fileState,           \* the config file on disk: missing, corrupt or ok
    fileContent,         \* the JSON object in the config file
    config,              \* config (line 106)
    port, dll_path,      \* locals of main (lines 109-110)
    baudrate, pulse_threshold, warmup,   \* locals of main (lines 114-116)
    pc,                  \* position in main
    ser,                 \* the serial connection: none, open, closed
    serialOpenAttempted, \* serial.Serial(...) has been called (line 96)
    dllLoadAttempted,    \* ctypes.CDLL(...) has been called (line 88)
    i,                   \* iterations of the warm-up loop completed
    last_pulse,          \* last_pulse (line 132), None before its assignment
    now,                 \* now (line 136)
    clock,               \* the value time.perf_counter() would return
    status,              \* the value the last vsync_func() call returned
    sent,                \* the bytes written to the serial connection
    updates,             \* number of executions of line 139
    writeTimes,          \* `now` of each byte written
    calls,               \* number of returns of vsync_func()
    exc,                 \* the exception in flight (or the last one raised)
    handled,             \* the exception was caught by `except KeyboardInterrupt`
    exitCode             \* the process exit status, None while running

vars == <<cli, fileState, fileContent, config, port, dll_path, baudrate,
          pulse_threshold, warmup, pc, ser, serialOpenAttempted,
          dllLoadAttempted, i, last_pulse, now, clock, status, sent, updates,
          writeTimes, calls, exc, handled, exitCode>>

----------------------------------------------------------------------------
(* Bounds of the model *)

\* returns of the wait primitive in one run
MaxCalls == 3
\* largest clock value
MaxClock == 5
\* largest clock advance during one blocking wait
MaxStep == 2
\* largest clock value at start (its reference point is undefined)
MaxInitClock == 1

----------------------------------------------------------------------------
(* Program constants *)

PULSE_BYTE == 170
ACCEPT == 1
DefaultBaudrate == 921600
DefaultPulseThreshold == 2
DefaultWarmup == 0
InitialLastPulse == 0

None == <<>>
Some(v) == <<v>>

RequiredKeys == {"port", "dll"}

(* Values each field can take on the command line (argparse leaves an
   omitted option at None) and in the config file (an absent key is None). *)
CliArgs ==
    [port : {None, Some("COM11")},
     dll : {None, Some("cli.dll")},
     baudrate : {None, Some(0)},
     pulse_threshold : {None, Some(0), Some(3)},
     warmup : {None, Some(2)}]

EmptyConfig ==
    [port |-> None, dll |-> None, baudrate |-> None,
     pulse_threshold |-> None, warmup |-> None]

FileContents ==
    [port : {None, Some("COM5")},
     dll : {None, Some("vs.dll")},
     baudrate : {Some(9600)},
     pulse_threshold : {None, Some(1)},
     warmup : {None, Some(0), Some(1)}]

Statuses == {0, 1, 2}

----------------------------------------------------------------------------
(* Pure helpers *)

\* Python truthiness of an optional number: None and 0 are falsy.
Falsy(x) == x = None \/ x[1] = 0

\* Python's `x or d`
Or(x, d) == IF Falsy(x) THEN Some(d) ELSE x

ValueError == <<"ValueError">>

\* variant: the `required` flag is ignored and None is returned
_resolve_option_NotRequired(cli_value, cfg, key, required) ==
    IF cli_value # None THEN cli_value
    ELSE IF cfg[key] # None THEN cfg[key]
    ELSE None

\* `key in config` and config[key]; an absent key is held as None
_resolve_option(cli_value, cfg, key, required) ==
    IF cli_value # None THEN cli_value
    ELSE IF cfg[key] # None THEN cfg[key]
    ELSE IF required THEN ValueError
    ELSE None

\* variant: `<=` in place of `<`
Debounced_Inclusive(t, last, threshold) == t - last <= threshold

\* the debounce test of line 137
Debounced(t, last, threshold) == t - last < threshold

Min(a, b) == IF a < b THEN a ELSE b

----------------------------------------------------------------------------
(* Initial states: a command line, a config file and a clock *)

Init ==
    /\ cli \in CliArgs
    /\ \/ fileState = "ok" /\ fileContent \in FileContents
       \/ fileState \in {"missing", "corrupt"} /\ fileContent = EmptyConfig
    /\ config = EmptyConfig
    /\ port = None /\ dll_path = None
    /\ baudrate = None /\ pulse_threshold = None /\ warmup = None
    /\ pc = "load_config"
    /\ ser = "none"
    /\ serialOpenAttempted = FALSE
    /\ dllLoadAttempted = FALSE
    /\ i = 0
    /\ last_pulse = None
    /\ now = None
    /\ clock \in 0..MaxInitClock
    /\ status = None
    /\ sent = <<>>
    /\ updates = 0
    /\ writeTimes = <<>>
    /\ calls = 0
    /\ exc = "None"
    /\ handled = FALSE
    /\ exitCode = None

----------------------------------------------------------------------------
(* Startup: lines 106-126 of main *)

\* _load_config: a missing file is an empty config, a malformed one is fatal
LoadConfig ==
    /\ pc = "load_config"
    /\ \/ /\ fileState = "missing"
          /\ config' = EmptyConfig
          /\ pc' = "resolve"
          /\ UNCHANGED <<exc, exitCode>>
       \/ /\ fileState = "ok"
          /\ config' = fileContent
          /\ pc' = "resolve"
          /\ UNCHANGED <<exc, exitCode>>
       \/ /\ fileState = "corrupt"
          /\ exc' = "SystemExit"
          /\ exitCode' = Some(1)
          /\ pc' = "exited"
          /\ UNCHANGED config
    /\ UNCHANGED <<cli, fileState, fileContent, port, dll_path, baudrate,
                   pulse_threshold, warmup, ser, serialOpenAttempted,
                   dllLoadAttempted, i, last_pulse, now, clock, status, sent,
                   updates, writeTimes, calls, handled>>

\* lines 108-116: the required options, then the optional ones with defaults
ResolveOptions ==
    /\ pc = "resolve"
    /\ LET p == _resolve_option(cli.port, config, "port", TRUE)
           d == _resolve_option(cli.dll, config, "dll", TRUE)
       IN  IF p = ValueError \/ d = ValueError
           THEN /\ exc' = "UsageError"
                /\ exitCode' = Some(2)
                /\ pc' = "exited"
                /\ UNCHANGED <<port, dll_path, baudrate, pulse_threshold, warmup>>
           ELSE /\ port' = p
                /\ dll_path' = d
                /\ baudrate' = Or(_resolve_option(cli.baudrate, config, "baudrate", FALSE),
                                  DefaultBaudrate)
                /\ pulse_threshold' =
                       Or(_resolve_option(cli.pulse_threshold, config, "pulse_threshold", FALSE),
                          DefaultPulseThreshold)
                /\ warmup' = Or(_resolve_option(cli.warmup, config, "warmup", FALSE),
                                DefaultWarmup)
                /\ pc' = "open_serial"
                /\ UNCHANGED <<exc, exitCode>>
    /\ UNCHANGED <<cli, fileState, fileContent, config, ser, serialOpenAttempted,
                   dllLoadAttempted, i, last_pulse, now, clock, status, sent,
                   updates, writeTimes, calls, handled>>

\* _open_serial: a SerialException becomes SystemExit
OpenSerial ==
    /\ pc = "open_serial"
    /\ serialOpenAttempted' = TRUE
    /\ \/ /\ ser' = "open"
          /\ pc' = "load_dll"
          /\ UNCHANGED <<exc, exitCode>>
       \/ /\ exc' = "SystemExit"
          /\ exitCode' = Some(1)
          /\ pc' = "exited"
          /\ UNCHANGED ser
    /\ UNCHANGED <<cli, fileState, fileContent, config, port, dll_path, baudrate,
                   pulse_threshold, warmup, dllLoadAttempted, i, last_pulse, now,
                   clock, status, sent, updates, writeTimes, calls, handled>>

\* _create_vsync_waiter: CDLL raises OSError for a missing module, the
\* attribute lookup raises AttributeError for a missing symbol; line 124 is
\* outside the try statement, so either one leaves main at once
LoadDll ==
    /\ pc = "load_dll"
    /\ dllLoadAttempted' = TRUE
    /\ \/ /\ pc' = "warmup"
          /\ UNCHANGED <<exc, exitCode>>
       \/ /\ exc' \in {"OSError", "AttributeError"}
          /\ exitCode' = Some(1)
          /\ pc' = "exited"
    /\ UNCHANGED <<cli, fileState, fileContent, config, port, dll_path, baudrate,
                   pulse_threshold, warmup, ser, serialOpenAttempted, i,
                   last_pulse, now, clock, status, sent, updates, writeTimes,
                   calls, handled>>

----------------------------------------------------------------------------
(* The relay loop: lines 128-140 *)

TryPCs == {"warmup", "wait", "clock", "test", "update", "write"}

\* the clock values a blocking wait that starts at `clock` can return at
ClockAfterWait == clock .. Min(clock + MaxStep, MaxClock)

\* variant: every non-zero status counts as an edge
IsAccept_NonZero(s) == s # 0

IsAccept(s) == s = ACCEPT

\* lines 129-130: one warm-up call; its status is dropped
WarmupCall ==
    /\ pc = "warmup"
    /\ i < warmup[1]
    /\ calls < MaxCalls
    /\ \E s \in Statuses, t \in ClockAfterWait :
          /\ status' = Some(s)
          /\ clock' = t
    /\ calls' = calls + 1
    /\ i' = i + 1
    /\ UNCHANGED <<cli, fileState, fileContent, config, port, dll_path, baudrate,
                   pulse_threshold, warmup, pc, ser, serialOpenAttempted,
                   dllLoadAttempted, last_pulse, now, sent, updates, writeTimes,
                   exc, handled, exitCode>>

\* variant: the warm-up loop runs one time too few
EnterRunning_OneShort ==
    /\ pc = "warmup"
    /\ i >= warmup[1] - 1
    /\ last_pulse' = Some(InitialLastPulse)
    /\ pc' = "wait"
    /\ UNCHANGED <<cli, fileState, fileContent, config, port, dll_path, baudrate,
                   pulse_threshold, warmup, ser, serialOpenAttempted,
                   dllLoadAttempted, i, now, clock, status, sent, updates,
                   writeTimes, calls, exc, handled, exitCode>>

\* the for loop is exhausted; line 132
EnterRunning ==
    /\ pc = "warmup"
    /\ i >= warmup[1]
    /\ last_pulse' = Some(InitialLastPulse)
    /\ pc' = "wait"
    /\ UNCHANGED <<cli, fileState, fileContent, config, port, dll_path, baudrate,
                   pulse_threshold, warmup, ser, serialOpenAttempted,
                   dllLoadAttempted, i, now, clock, status, sent, updates,
                   writeTimes, calls, exc, handled, exitCode>>

\* lines 134-135: a wait call returns; any status but ACCEPT restarts the loop
WaitReturn ==
    /\ pc = "wait"
    /\ calls < MaxCalls
    /\ \E s \in Statuses, t \in ClockAfterWait :
          /\ status' = Some(s)
          /\ clock' = t
          /\ pc' = IF IsAccept(s) THEN "clock" ELSE "wait"
    /\ calls' = calls + 1
    /\ UNCHANGED <<cli, fileState, fileContent, config, port, dll_path, baudrate,
                   pulse_threshold, warmup, ser, serialOpenAttempted,
                   dllLoadAttempted, i, last_pulse, now, sent, updates,
                   writeTimes, exc, handled, exitCode>>

\* the native call raises (warm-up or running phase)
WaitRaises ==
    /\ pc \in {"warmup", "wait"}
    /\ pc = "warmup" => i < warmup[1]
    /\ exc' = "WaitError"
    /\ pc' = "finally"
    /\ UNCHANGED <<cli, fileState, fileContent, config, port, dll_path, baudrate,
                   pulse_threshold, warmup, ser, serialOpenAttempted,
                   dllLoadAttempted, i, last_pulse, now, clock, status, sent,
                   updates, writeTimes, calls, handled, exitCode>>

\* line 136
ReadClock ==
    /\ pc = "clock"
    /\ now' = Some(clock)
    /\ pc' = "test"
    /\ UNCHANGED <<cli, fileState, fileContent, config, port, dll_path, baudrate,
                   pulse_threshold, warmup, ser, serialOpenAttempted,
                   dllLoadAttempted, i, last_pulse, clock, status, sent, updates,
                   writeTimes, calls, exc, handled, exitCode>>

\* lines 137-138
DebounceTest ==
    /\ pc = "test"
    /\ pc' = IF Debounced(now[1], last_pulse[1], pulse_threshold[1])
             THEN "wait" ELSE "update"
    /\ UNCHANGED <<cli, fileState, fileContent, config, port, dll_path, baudrate,
                   pulse_threshold, warmup, ser, serialOpenAttempted,
                   dllLoadAttempted, i, last_pulse, now, clock, status, sent,
                   updates, writeTimes, calls, exc, handled, exitCode>>

\* line 139
UpdateLastPulse ==
    /\ pc = "update"
    /\ last_pulse' = now
    /\ updates' = updates + 1
    /\ pc' = "write"
    /\ UNCHANGED <<cli, fileState, fileContent, config, port, dll_path, baudrate,
                   pulse_threshold, warmup, ser, serialOpenAttempted,
                   dllLoadAttempted, i, now, clock, status, sent, writeTimes,
                   calls, exc, handled, exitCode>>

\* variant: a line terminator is sent after the marker
SerialWrite_Framed ==
    /\ pc = "write"
    /\ sent' = sent \o <<PULSE_BYTE, 10>>
    /\ writeTimes' = Append(writeTimes, now[1])
    /\ pc' = "wait"
    /\ UNCHANGED <<cli, fileState, fileContent, config, port, dll_path, baudrate,
                   pulse_threshold, warmup, ser, serialOpenAttempted,
                   dllLoadAttempted, i, last_pulse, now, clock, status, updates,
                   calls, exc, handled, exitCode>>

\* line 140: the write succeeds
SerialWrite ==
    /\ pc = "write"
    /\ sent' = Append(sent, PULSE_BYTE)
    /\ writeTimes' = Append(writeTimes, now[1])
    /\ pc' = "wait"
    /\ UNCHANGED <<cli, fileState, fileContent, config, port, dll_path, baudrate,
                   pulse_threshold, warmup, ser, serialOpenAttempted,
                   dllLoadAttempted, i, last_pulse, now, clock, status, updates,
                   calls, exc, handled, exitCode>>

\* line 140: the write raises; nothing is sent
SerialWriteRaises ==
    /\ pc = "write"
    /\ exc' = "WriteError"
    /\ pc' = "finally"
    /\ UNCHANGED <<cli, fileState, fileContent, config, port, dll_path, baudrate,
                   pulse_threshold, warmup, ser, serialOpenAttempted,
                   dllLoadAttempted, i, last_pulse, now, clock, status, sent,
                   updates, writeTimes, calls, handled, exitCode>>

\* KeyboardInterrupt is raised at some point inside the try block
Interrupt ==
    /\ pc \in TryPCs
    /\ exc' = "KeyboardInterrupt"
    /\ pc' = "except"
    /\ UNCHANGED <<cli, fileState, fileContent, config, port, dll_path, baudrate,
                   pulse_threshold, warmup, ser, serialOpenAttempted,
                   dllLoadAttempted, i, last_pulse, now, clock, status, sent,
                   updates, writeTimes, calls, handled, exitCode>>

----------------------------------------------------------------------------
(* Leaving the loop: lines 141-145 *)

\* variant: the handler does not swallow the interrupt
HandleInterrupt_Reraise ==
    /\ pc = "except"
    /\ handled' = FALSE
    /\ pc' = "finally"
    /\ UNCHANGED <<cli, fileState, fileContent, config, port, dll_path, baudrate,
                   pulse_threshold, warmup, ser, serialOpenAttempted,
                   dllLoadAttempted, i, last_pulse, now, clock, status, sent,
                   updates, writeTimes, calls, exc, exitCode>>

\* lines 141-142
HandleInterrupt ==
    /\ pc = "except"
    /\ handled' = TRUE
    /\ pc' = "finally"
    /\ UNCHANGED <<cli, fileState, fileContent, config, port, dll_path, baudrate,
                   pulse_threshold, warmup, ser, serialOpenAttempted,
                   dllLoadAttempted, i, last_pulse, now, clock, status, sent,
                   updates, writeTimes, calls, exc, exitCode>>

\* variant: the connection is closed in the except clause only
Finally_CloseWhenHandled ==
    /\ pc = "finally"
    /\ ser' = IF handled THEN "closed" ELSE ser
    /\ IF handled
       THEN pc' = "return" /\ UNCHANGED exitCode
       ELSE pc' = "exited" /\ exitCode' = Some(1)
    /\ UNCHANGED <<cli, fileState, fileContent, config, port, dll_path, baudrate,
                   pulse_threshold, warmup, serialOpenAttempted,
                   dllLoadAttempted, i, last_pulse, now, clock, status, sent,
                   updates, writeTimes, calls, exc, handled>>

\* lines 143-144; an exception that was not caught goes on and ends the process
Finally ==
    /\ pc = "finally"
    /\ ser' = "closed"
    /\ IF handled
       THEN pc' = "return" /\ UNCHANGED exitCode
       ELSE pc' = "exited" /\ exitCode' = Some(1)
    /\ UNCHANGED <<cli, fileState, fileContent, config, port, dll_path, baudrate,
                   pulse_threshold, warmup, serialOpenAttempted,
                   dllLoadAttempted, i, last_pulse, now, clock, status, sent,
                   updates, writeTimes, calls, exc, handled>>

\* line 145 and sys.exit(main())
Return ==
    /\ pc = "return"
    /\ exitCode' = Some(0)
    /\ pc' = "exited"
    /\ UNCHANGED <<cli, fileState, fileContent, config, port, dll_path, baudrate,
                   pulse_threshold, warmup, ser, serialOpenAttempted,
                   dllLoadAttempted, i, last_pulse, now, clock, status, sent,
                   updates, writeTimes, calls, exc, handled>>

Next ==
    \/ LoadConfig
    \/ ResolveOptions
    \/ OpenSerial
    \/ LoadDll
    \/ WarmupCall
    \/ EnterRunning
    \/ WaitReturn
    \/ WaitRaises
    \/ ReadClock
    \/ DebounceTest
    \/ UpdateLastPulse
    \/ SerialWrite
    \/ SerialWriteRaises
    \/ Interrupt
    \/ HandleInterrupt
    \/ Finally
    \/ Return

Spec == Init /\ [][Next]_vars

\* main runs in one thread: once the except clause, the finally clause or the
\* return statement is reached, it is executed
FairSpec ==
    Spec /\ WF_vars(HandleInterrupt) /\ WF_vars(Finally) /\ WF_vars(Return)

----------------------------------------------------------------------------
(* Properties *)

\* the steps of one loop iteration that handles an ACCEPT, when nothing
\* cuts the iteration short
DebounceSteps ==
    /\ (pc = "test" /\ now[1] - last_pulse[1] < pulse_threshold[1])
          => (last_pulse' = last_pulse /\ sent' = sent)
    /\ (pc' = "update") => (pc = "test" /\ now[1] - last_pulse[1] >= pulse_threshold[1])
    /\ (last_pulse # None /\ last_pulse' # last_pulse)
          => (pc = "update" /\ last_pulse' = now /\ pc' = "write")
    /\ (sent' # sent)
          => (pc = "write" /\ last_pulse = now /\ sent' = Append(sent, PULSE_BYTE))

\* any two consecutively written bytes are at least pulse_threshold apart
WritesSpaced ==
    \A k \in 1..(Len(writeTimes) - 1) :
        writeTimes[k + 1] - writeTimes[k] >= pulse_threshold[1]

\* C1 as stated: in the RUNNING phase an ACCEPT at time `now` with
\* now - last_pulse < pulse_threshold writes nothing and leaves last_pulse
\* alone; with now - last_pulse >= pulse_threshold, last_pulse becomes `now`
\* and exactly one marker byte is written; written bytes are at least
\* pulse_threshold apart.  (An interrupt, which is a transition of its own,
\* is allowed to cut the iteration short.)
C1_DebounceLawAsStated ==
    /\ [][/\ DebounceSteps
          /\ (pc = "test" /\ now[1] - last_pulse[1] >= pulse_threshold[1])
                => (pc' = "update" \/ exc' = "KeyboardInterrupt")
          /\ pc = "update"
                => ((last_pulse' = now /\ pc' = "write") \/ exc' = "KeyboardInterrupt")
          /\ pc = "write"
                => ((sent' = Append(sent, PULSE_BYTE) /\ pc' = "wait")
                      \/ exc' = "KeyboardInterrupt")]_vars
    /\ []WritesSpaced

\* C1 amended: as C1, except that the serial write may raise (or an
\* interrupt arrive) after the debounce test has passed; then no byte is
\* written for that edge, last_pulse is `now` if line 139 had already run,
\* and the loop ends.
C1_DebounceLaw ==
    /\ [][/\ DebounceSteps
          /\ (pc = "test" /\ now[1] - last_pulse[1] >= pulse_threshold[1])
                => (pc' \in {"update", "except"} /\ last_pulse' = last_pulse /\ sent' = sent)
          /\ pc = "update"
                => \/ last_pulse' = now /\ pc' = "write" /\ sent' = sent
                   \/ pc' = "except" /\ last_pulse' = last_pulse /\ sent' = sent
          /\ pc = "write"
                => \/ sent' = Append(sent, PULSE_BYTE) /\ pc' = "wait" /\ last_pulse' = last_pulse
                   \/ pc' \in {"except", "finally"} /\ sent' = sent /\ last_pulse' = last_pulse]_vars
    /\ []WritesSpaced

\* two bytes were written and a later ACCEPT was then discarded by the filter
C1_Witness ==
    /\ pc = "wait"
    /\ Len(sent) = 2
    /\ status = Some(ACCEPT)
    /\ now[1] > last_pulse[1]
    /\ now[1] - last_pulse[1] < pulse_threshold[1]

\* C2: the first `warmup` returns of the wait primitive, whatever their
\* status, write no byte and leave last_pulse alone; the debounce filter is
\* first applied to call number warmup + 1.
C2_WarmupLaw ==
    /\ [](warmup # None /\ calls <= warmup[1]
            => /\ sent = <<>>
               /\ updates = 0
               /\ last_pulse \in {None, Some(InitialLastPulse)}
               /\ pc \notin {"clock", "test", "update", "write"})
    /\ [][(pc \in {"warmup", "wait"} /\ calls = warmup[1] /\ calls' = calls + 1
              /\ status' = Some(ACCEPT))
            => pc' = "clock"]_vars
    /\ [][(pc = "warmup" /\ calls' = calls + 1) => calls < warmup[1]]_vars

\* two warm-up calls were discarded and the third call went through the filter
C2_Witness ==
    /\ warmup = Some(2)
    /\ calls = 3
    /\ pc = "wait"
    /\ Len(sent) = 1

Expected(k, default) ==
    IF cli[k] # None THEN cli[k]
    ELSE IF fileState = "ok" /\ fileContent[k] # None THEN fileContent[k]
    ELSE Some(default)

\* C3: every field resolves to the command-line value if present, otherwise
\* the file value if present, otherwise the built-in default, zero values
\* included.
C3_MergePrecedence ==
    pulse_threshold # None
        => /\ port = Expected("port", "")
           /\ dll_path = Expected("dll", "")
           /\ baudrate = Expected("baudrate", DefaultBaudrate)
           /\ pulse_threshold = Expected("pulse_threshold", DefaultPulseThreshold)
           /\ warmup = Expected("warmup", DefaultWarmup)

MissingRequired ==
    \E k \in RequiredKeys :
        cli[k] = None /\ (fileState # "ok" \/ fileContent[k] = None)

\* C4: when port or dll is absent from both the command line and the config
\* file, startup ends in a configuration error with a non-zero exit status
\* and neither the serial open nor the library load is attempted.
C4_ConfigErrorBeforeIO ==
    MissingRequired
        => /\ pc \in {"load_config", "resolve", "exited"}
           /\ ~serialOpenAttempted
           /\ ~dllLoadAttempted
           /\ ser = "none"
           /\ pc = "exited"
                => (exc \in {"UsageError", "SystemExit"} /\ exitCode \in {Some(1), Some(2)})

\* the port is given, the dll is in neither source, and the run has ended
C4_Witness ==
    /\ cli.port # None
    /\ cli.dll = None
    /\ fileState = "ok"
    /\ fileContent.dll = None
    /\ pc = "exited"
    /\ exc = "UsageError"

LoopExits == {"KeyboardInterrupt", "WaitError", "WriteError"}

\* C5: whenever the program ends after leaving the relay loop (interrupt,
\* error of the wait primitive, error of the serial write), the serial
\* connection has been closed.
C5_GuaranteedRelease ==
    (pc \in {"return", "exited"} /\ exc \in LoopExits) => ser = "closed"

\* a failing write ended the run, with the connection closed
C5_Witness ==
    /\ pc = "exited"
    /\ exc = "WriteError"
    /\ ser = "closed"

\* C6: an interrupt at any point of the loop leads to the shutdown path,
\* after which no byte is written, and the program ends with exit status 0;
\* any other error raised in the loop does not give exit status 0.
C6_GracefulShutdown ==
    /\ [][(exc # "KeyboardInterrupt" /\ exc' = "KeyboardInterrupt")
            => (pc \in TryPCs /\ pc' = "except")]_vars
    /\ [][exc = "KeyboardInterrupt"
            => (/\ sent' = sent
                /\ exc' = exc
                /\ pc' \in {"finally", "return", "exited"})]_vars
    /\ []((pc = "exited" /\ exc = "KeyboardInterrupt") => exitCode = Some(0))
    /\ []((pc = "exited" /\ exc \in {"WaitError", "WriteError"})
            => (exitCode # None /\ exitCode # Some(0)))
    /\ (exc = "KeyboardInterrupt") ~> (pc = "exited" /\ exitCode = Some(0))

\* an interrupt arrived between the timestamp update and the write, after an
\* earlier byte had been sent, and the run ended with status 0
C6_Witness ==
    /\ pc = "exited"
    /\ exc = "KeyboardInterrupt"
    /\ exitCode = Some(0)
    /\ Len(sent) = 1
    /\ updates = 2

OnlyMarkerBytes == \A k \in 1..Len(sent) : sent[k] = PULSE_BYTE

\* C7 as stated: in every reachable state the bytes sent are all 0xAA and
\* their number equals the number of last_pulse updates.  (The state between
\* line 139 and line 140 of one iteration is left out.)
C7_WireProtocolAsStated ==
    /\ OnlyMarkerBytes
    /\ pc # "write" => Len(sent) = updates

\* C7 amended: the bytes sent are all 0xAA and their number equals the
\* number of last_pulse updates, except that it is one less from the update
\* of line 139 until its write completes, and stays one less when the write
\* raises or an interrupt arrives first.
C7_WireProtocol ==
    /\ OnlyMarkerBytes
    /\ Len(sent) <= updates
    /\ updates <= Len(sent) + 1
    /\ pc \in {"warmup", "wait", "clock", "test", "update"} => Len(sent) = updates
    /\ (pc \in {"except", "finally", "return", "exited"} /\ Len(sent) # updates)
          => (exc \in {"KeyboardInterrupt", "WriteError"} /\ last_pulse = now)

\* the second accepted edge was stamped but its write failed
C7_Witness ==
    /\ pc = "exited"
    /\ exc = "WriteError"
    /\ Len(sent) = 1
    /\ updates = 2

\* C8: in the RUNNING phase a wait return with a status other than 1 leaves
\* last_pulse and the bytes written unchanged and the loop stays in RUNNING.
C8_DiscardNonAccept ==
    [][(pc = "wait" /\ calls' = calls + 1 /\ status' # Some(ACCEPT))
         => (/\ pc' = "wait"
             /\ last_pulse' = last_pulse
             /\ sent' = sent
             /\ updates' = updates
             /\ exc' = exc)]_vars

\* a status 2 was returned after a byte had been written
C8_Witness ==
    /\ pc = "wait"
    /\ status = Some(2)
    /\ Len(sent) = 1
    /\ updates = 1

\* C9: the first ACCEPT of the RUNNING phase, tested while last_pulse still
\* holds its initial value, is never discarded by the debounce filter,
\* whatever the threshold and the clock.
C9_FirstEdgeAccepted ==
    [][(pc = "test" /\ updates = 0) => pc' # "wait"]_vars

\* C10: whenever the program has ended after the serial connection was
\* opened, the connection has been closed.
C10_ReleaseOnStartupFailure ==
    (pc = "exited" /\ ser # "none") => ser = "closed"

====
